---- MODULE Spec2Model ----
(***************************************************************************)
(* Content-Disposition attribute extraction (src/src/content_disposition.rs) *)
(*                                                                         *)
(* Bytes are the integers 0..255; a byte slice is a sequence of bytes.     *)
(* Rust indices are 0-based: s[i] is s[i + 1] here and s[a..b] is          *)
(* SubSeq(s, a + 1, b).  Option<T> is [tag |-> "None"] or                   *)
(* [tag |-> "Some", val |-> v]; an index or slice bound outside its slice   *)
(* (a Rust panic) is [tag |-> "Panic"].                                     *)
(***************************************************************************)
EXTENDS Integers, Sequences, FiniteSets, TLC

VARIABLES header, attr, pc, current_header, regular_result, scan, iters,
          found, result, panicked

vars == <<header, attr, pc, current_header, regular_result, scan, iters,
          found, result, panicked>>

---------------------------------------------------------------------------
\* Byte literals of the source.
SEMI == 59
PERCENT == 37
STAR == 42
EQUALS == 61
SQUOTE == 39
SPACE == 32
DQUOTE == 34
BACKSLASH == 92
PLUS == 43

None == [tag |-> "None"]
Some(v) == [tag |-> "Some", val |-> v]
Panic == [tag |-> "Panic"]

Min(S) == CHOOSE x \in S : \A y \in S : x <= y

\* s[a..b] is in bounds
InRange(s, a, b) == 0 <= a /\ a <= b /\ b <= Len(s)
\* s[a..b]
Slice(s, a, b) == SubSeq(s, a + 1, b)
\* s[a..]
SliceFrom(s, a) == SubSeq(s, a + 1, Len(s))

\* u8::is_ascii_whitespace: space, \t, \n, form feed, \r
is_ascii_whitespace(b) == b \in {32, 9, 10, 12, 13}

\* u8::to_ascii_lowercase
to_ascii_lowercase(b) == IF b >= 65 /\ b <= 90 THEN b + 32 ELSE b

\* memchr::memchr: index of the first c in s
memchr(c, s) ==
    LET idx == {i \in 1..Len(s) : s[i] = c}
    IN  IF idx = {} THEN None ELSE Some(Min(idx) - 1)

\* memchr::memchr2: index of the first c1 or c2 in s
memchr2(c1, c2, s) ==
    LET idx == {i \in 1..Len(s) : s[i] = c1 \/ s[i] = c2}
    IN  IF idx = {} THEN None ELSE Some(Min(idx) - 1)

\* Whether s[i..] (0-based i) starts with one well-formed UTF-8 scalar; its length,
\* or 0 when it does not.
utf8_char_len(s, i) ==
    LET n == Len(s)
        b0 == s[i + 1]
        cont(k) == i + k < n /\ s[i + k + 1] >= 128 /\ s[i + k + 1] <= 191
        snd(lo, hi) == i + 1 < n /\ s[i + 2] >= lo /\ s[i + 2] <= hi
    IN  IF b0 < 128 THEN 1
        ELSE IF b0 >= 194 /\ b0 <= 223 THEN (IF cont(1) THEN 2 ELSE 0)
        ELSE IF b0 = 224 THEN (IF snd(160, 191) /\ cont(2) THEN 3 ELSE 0)
        ELSE IF b0 = 237 THEN (IF snd(128, 159) /\ cont(2) THEN 3 ELSE 0)
        ELSE IF b0 >= 225 /\ b0 <= 239 THEN (IF cont(1) /\ cont(2) THEN 3 ELSE 0)
        ELSE IF b0 = 240 THEN (IF snd(144, 191) /\ cont(2) /\ cont(3) THEN 4 ELSE 0)
        ELSE IF b0 = 244 THEN (IF snd(128, 143) /\ cont(2) /\ cont(3) THEN 4 ELSE 0)
        ELSE IF b0 >= 241 /\ b0 <= 243
             THEN (IF cont(1) /\ cont(2) /\ cont(3) THEN 4 ELSE 0)
        ELSE 0

RECURSIVE valid_utf8_from(_, _)
valid_utf8_from(s, i) ==
    IF i >= Len(s) THEN TRUE
    ELSE LET k == utf8_char_len(s, i)
         IN  k > 0 /\ valid_utf8_from(s, i + k)

\* str::from_utf8(bytes).ok()
from_utf8(bytes) == IF valid_utf8_from(bytes, 0) THEN Some(bytes) ELSE None

\* char::to_digit(16)
hex_digit(b) ==
    IF b >= 48 /\ b <= 57 THEN Some(b - 48)
    ELSE IF b >= 97 /\ b <= 102 THEN Some(b - 87)
    ELSE IF b >= 65 /\ b <= 70 THEN Some(b - 55)
    ELSE None

\* u8::from_str_radix(hex, 16).ok() on a two-byte str: a leading '+' is a sign, a
\* leading '-' is not accepted for an unsigned type
from_str_radix_16(hex) ==
    LET d1 == hex_digit(hex[1])
        d2 == hex_digit(hex[2])
    IN  IF hex[1] = PLUS
        THEN d2
        ELSE IF d1.tag = "Some" /\ d2.tag = "Some"
             THEN Some(16 * d1.val + d2.val)
             ELSE None

---------------------------------------------------------------------------
\* fn convert_escaped: replace every \" by "
RECURSIVE replace_escaped_quotes(_, _)
replace_escaped_quotes(s, i) ==
    IF i >= Len(s) THEN <<>>
    ELSE IF s[i + 1] = BACKSLASH /\ i + 1 < Len(s) /\ s[i + 2] = DQUOTE
         THEN <<DQUOTE>> \o replace_escaped_quotes(s, i + 2)
         ELSE <<s[i + 1]>> \o replace_escaped_quotes(s, i + 1)

convert_escaped(bytes) ==
    LET s == from_utf8(bytes)
    IN  IF s.tag = "None" THEN None ELSE Some(replace_escaped_quotes(s.val, 0))

\* Faulty variants of has_escape_at: the bound on i off by one, either way
has_escape_at_early(input, i) == input[i + 1] = PERCENT /\ i + 1 < Len(input)

has_escape_at_late(input, i) == input[i + 1] = PERCENT /\ i + 3 < Len(input)

\* percent_decode, line 69: the loop's test for an escape triple at i
has_escape_at(input, i) == input[i + 1] = PERCENT /\ i + 2 < Len(input)

\* percent_decode, lines 70-71: the two bytes after '%' as a byte value
decode_hex_pair(pair) ==
    LET hex == from_utf8(pair)
    IN  IF hex.tag = "None" THEN None ELSE from_str_radix_16(hex.val)

\* percent_decode, lines 68-78: the while loop
RECURSIVE percent_decode_loop(_, _, _)
percent_decode_loop(input, i, decoded) ==
    IF ~(i < Len(input)) THEN Some(decoded)
    ELSE IF has_escape_at(input, i)
         THEN IF ~InRange(input, i + 1, i + 3) THEN Panic
              ELSE LET byte == decode_hex_pair(Slice(input, i + 1, i + 3))
                   IN  IF byte.tag = "None" THEN None
                       ELSE percent_decode_loop(input, i + 3, Append(decoded, byte.val))
         ELSE percent_decode_loop(input, i + 1, Append(decoded, input[i + 1]))

percent_decode(input) ==
    IF \A i \in 1..Len(input) : input[i] # PERCENT
    THEN Some(input)
    ELSE percent_decode_loop(input, 0, <<>>)

decode_field(value) ==
    LET decoded == percent_decode(value)
    IN  IF decoded.tag = "Some" THEN from_utf8(decoded.val) ELSE decoded

trim_ascii_ws_start(bytes) ==
    LET idx == {i \in 1..Len(bytes) : ~is_ascii_whitespace(bytes[i])}
    IN  IF idx = {} THEN SliceFrom(bytes, Len(bytes))
        ELSE SliceFrom(bytes, Min(idx) - 1)

trim_ascii_ws_then(bytes, char) ==
    LET t == trim_ascii_ws_start(bytes)
    IN  IF Len(t) > 0 /\ t[1] = char THEN Some(Tail(t)) ELSE None

matches_prefix(bytes, prefix) ==
    /\ Len(bytes) >= Len(prefix)
    /\ \A i \in 1..Len(prefix) :
          to_ascii_lowercase(bytes[i]) = to_ascii_lowercase(prefix[i])

\* parse_value, lines 223-227: the escape loop from the quote at k
RECURSIVE parse_value_loop(_, _, _)
parse_value_loop(rest, k, escaped) ==
    IF k > 0 /\ ~(k - 1 < Len(rest)) THEN Panic
    ELSE IF k > 0 /\ rest[k] = BACKSLASH
         THEN IF ~InRange(rest, k + 1, Len(rest)) THEN Panic
              ELSE LET nxt == memchr(DQUOTE, SliceFrom(rest, k + 1))
                   IN  IF nxt.tag = "None" THEN None
                       ELSE parse_value_loop(rest, k + 1 + nxt.val, TRUE)
         ELSE IF ~InRange(rest, 0, k) THEN Panic
              ELSE Some([value |-> Slice(rest, 0, k), escaped |-> escaped])

parse_value(input) ==
    LET quoted == trim_ascii_ws_then(input, DQUOTE)
    IN  IF quoted.tag = "Some"
        THEN LET k == memchr(DQUOTE, quoted.val)
             IN  IF k.tag = "None" THEN None
                 ELSE parse_value_loop(quoted.val, k.val, FALSE)
        ELSE LET rest == trim_ascii_ws_start(input)
                 m == memchr2(SEMI, SPACE, rest)
                 j == IF m.tag = "Some" THEN m.val ELSE Len(rest)
             IN  IF ~InRange(rest, 0, j) THEN Panic
                 ELSE Some([value |-> Slice(rest, 0, j), escaped |-> FALSE])

\* parse_extended_value, lines 208-211: cut the value at the first space
trim_at_space(value) ==
    LET pos == memchr(SPACE, value)
    IN  IF pos.tag = "None" THEN Some(value)
        ELSE IF ~InRange(value, 0, pos.val) THEN Panic
        ELSE Some(Slice(value, 0, pos.val))

\* parse_extended_value, lines 204-205: the value goes to the next ';' or to the end
extended_value_of(remaining) ==
    LET semi == memchr(SEMI, remaining)
        value_end == IF semi.tag = "Some" THEN semi.val ELSE Len(remaining)
    IN  IF ~InRange(remaining, 0, value_end) THEN Panic
        ELSE trim_at_space(Slice(remaining, 0, value_end))

\* parse_extended_value, lines 195-203: the language tag, up to the second quote
after_language(input, charset_end, after_charset) ==
    LET lang_end == memchr(SQUOTE, after_charset)
    IN  IF lang_end.tag = "None" THEN None
        ELSE IF ~InRange(after_charset, 0, lang_end.val) THEN Panic
        ELSE IF from_utf8(Slice(after_charset, 0, lang_end.val)).tag = "None" THEN None
        ELSE IF ~InRange(input, charset_end + 1 + lang_end.val + 1, Len(input)) THEN Panic
        ELSE extended_value_of(SliceFrom(input, charset_end + 1 + lang_end.val + 1))

\* parse_extended_value, lines 190-194: the charset, up to the first quote
after_charset(input) ==
    LET charset_end == memchr(SQUOTE, input)
    IN  IF charset_end.tag = "None" THEN None
        ELSE IF ~InRange(input, 0, charset_end.val) THEN Panic
        ELSE IF from_utf8(Slice(input, 0, charset_end.val)).tag = "None" THEN None
        ELSE IF ~InRange(input, charset_end.val + 1, Len(input)) THEN Panic
        ELSE after_language(input, charset_end.val,
                            SliceFrom(input, charset_end.val + 1))

\* parse_extended_value: the value bytes of charset'language'value
parse_extended_value(input) == after_charset(trim_ascii_ws_start(input))

ParsedField(value, is_extended, is_escaped) ==
    [value |-> value, is_extended |-> is_extended, is_escaped |-> is_escaped]

\* parse_field, lines 164-172: the field of an extended value that parsed
extended_field(value, suffix) ==
    IF value.tag # "Some" THEN value
    ELSE Some([field |-> ParsedField(value.val, TRUE, FALSE), rest |-> suffix])

\* parse_field, lines 174-182: the field of a regular value that parsed
regular_field(v, suffix) ==
    IF v.tag # "Some" THEN v
    ELSE Some([field |-> ParsedField(v.val.value, FALSE, v.val.escaped),
               rest |-> suffix])

\* parse_field, lines 160-183: rest is the Option that trim_ascii_ws_then(_, '=') gave
field_value(rest, is_extended, suffix) ==
    IF rest.tag = "None" THEN None
    ELSE IF is_extended
         THEN extended_field(parse_extended_value(rest.val), suffix)
         ELSE regular_field(parse_value(rest.val), suffix)

\* parse_field, lines 156-160: what follows the name (and the '*') must be '='
field_after_name(rest, is_extended, suffix) ==
    IF Len(rest) > 0 /\ rest[1] # EQUALS THEN None
    ELSE field_value(trim_ascii_ws_then(rest, EQUALS), is_extended, suffix)

\* parse_field, lines 150-154: a '*' after the name marks the extended form
field_form(rest, suffix) ==
    IF Len(rest) > 0 /\ rest[1] = STAR
    THEN field_after_name(trim_ascii_ws_start(SliceFrom(rest, 1)), TRUE, suffix)
    ELSE field_after_name(rest, FALSE, suffix)

\* parse_field: Some([field, rest]) where rest is the header after the prefix
parse_field(hdr, prefix) ==
    IF ~InRange(hdr, Len(prefix), Len(hdr)) THEN Panic
    ELSE field_form(trim_ascii_ws_start(SliceFrom(hdr, Len(prefix))),
                    SliceFrom(hdr, Len(prefix)))

---------------------------------------------------------------------------
\* extract_from, lines 238-241
prefix_of(a) ==
    IF a = "Name" THEN <<110, 97, 109, 101>>                        \* b"name"
    ELSE <<102, 105, 108, 101, 110, 97, 109, 101>>                  \* b"filename"

\* Faulty variant of try_param: the name is compared case-sensitively
try_param_case_sensitive(param, prefix) ==
    IF Len(param) >= Len(prefix) /\ SubSeq(param, 1, Len(prefix)) = prefix
    THEN parse_field(param, prefix)
    ELSE None

\* find_next_field, lines 130-134: the parameter as a field of the attribute, if it
\* starts with the prefix and parses
try_param(param, prefix) ==
    IF matches_prefix(param, prefix) THEN parse_field(param, prefix) ELSE None

\* Faulty variant of after_semi: the ';' is not stepped over
after_semi_stay(at_semi) == trim_ascii_ws_start(at_semi)

\* find_next_field, line 128: step over the ';' and the whitespace after it
after_semi(at_semi) == trim_ascii_ws_start(SliceFrom(at_semi, 1))

\* find_next_field, lines 130-140: return the field that parsed, or go on from the
\* next ';' of the parameter, or leave the loop
param_result(param, parsed, next_semi) ==
    IF parsed.tag = "Panic" THEN [kind |-> "panic"]
    ELSE IF parsed.tag = "Some" THEN [kind |-> "return", found |-> parsed]
    ELSE IF next_semi.tag = "Some"
         THEN [kind |-> "continue", hdr |-> SliceFrom(param, next_semi.val)]
         ELSE [kind |-> "return", found |-> None]

\* find_next_field, lines 130-140 on the parameter that starts at param
scan_param(param, prefix) ==
    param_result(param, try_param(param, prefix), memchr(SEMI, param))

\* find_next_field, lines 128-140 on a header that starts with ';'
scan_from_semi(at_semi, prefix) ==
    IF ~InRange(at_semi, 1, Len(at_semi)) THEN [kind |-> "panic"]
    ELSE scan_param(after_semi(at_semi), prefix)

\* find_next_field, lines 122-141: one iteration of the while loop on a non-empty
\* header.  [kind |-> "return", found |-> Option] leaves the function,
\* [kind |-> "continue", hdr |-> h] goes round the loop again.
scan_iter(hdr, prefix) ==
    LET semi == memchr(SEMI, hdr)
    IN  IF hdr[1] # SEMI /\ semi.tag = "None"
        THEN [kind |-> "return", found |-> None]
        ELSE scan_from_semi(IF hdr[1] # SEMI THEN SliceFrom(hdr, semi.val) ELSE hdr,
                            prefix)

\* Faulty variant of on_field: the first occurrence wins, whatever its form
on_field_first_wins(field, reg) ==
    IF field.is_extended /\ reg.tag = "None"
    THEN [ret |-> TRUE, res |-> decode_field(field.value), reg |-> reg]
    ELSE IF reg.tag = "None"
         THEN [ret |-> FALSE, res |-> None, reg |-> Some(field)]
         ELSE [ret |-> FALSE, res |-> None, reg |-> reg]

\* Faulty variant of on_field: the last regular occurrence wins
on_field_last_wins(field, reg) ==
    IF field.is_extended
    THEN [ret |-> TRUE, res |-> decode_field(field.value), reg |-> reg]
    ELSE [ret |-> FALSE, res |-> None, reg |-> Some(field)]

\* extract_from, lines 247-252: the loop body on a field that was found.
\* ret: the function returns res; otherwise the loop goes on with reg.
on_field(field, reg) ==
    IF field.is_extended
    THEN [ret |-> TRUE, res |-> decode_field(field.value), reg |-> reg]
    ELSE IF reg.tag = "None"
         THEN [ret |-> FALSE, res |-> None, reg |-> Some(field)]
         ELSE [ret |-> FALSE, res |-> None, reg |-> reg]

\* extract_from, lines 255-261
finish(reg) ==
    IF reg.tag = "None" THEN None
    ELSE IF reg.val.is_escaped
         THEN convert_escaped(reg.val.value)
         ELSE from_utf8(reg.val.value)

---------------------------------------------------------------------------
\* Headers the model is run on: a disposition type followed by parameters.
MaxParams == 2

NameKey == <<110, 97, 109, 101>>                                    \* name
FileNameKey == <<102, 105, 108, 101, 110, 97, 109, 101>>            \* filename
DispositionType == <<102, 111, 114, 109, 45, 100, 97, 116, 97>>     \* form-data
Sep == <<SEMI, SPACE>>
Utf8Tag == <<117, 116, 102, 45, 56, SQUOTE, SQUOTE>>                \* utf-8''

Plain(key, body) == key \o <<EQUALS>> \o body
Quoted(key, body) == key \o <<EQUALS, DQUOTE>> \o body \o <<DQUOTE>>
Extended(key, enc) == key \o <<STAR, EQUALS>> \o Utf8Tag \o enc

BodyX == <<120>>                                                    \* x
BodySemi == <<97, SEMI, 98>>                                        \* a;b
BodyLookAlike == <<97, SEMI, SPACE>> \o Extended(NameKey, <<98>>)   \* a; name*=utf-8''b
BodyEscaped == <<97, BACKSLASH, DQUOTE, 98>>                        \* a\"b
BodyFile == <<102, 46, 116, 120, 116>>                              \* f.txt
BodyFileSemi == <<102, SEMI, 103>>                                  \* f;g
BodyFileLookAlike == <<97, SEMI, SPACE>> \o Plain(NameKey, <<98>>)  \* a; name=b
EncSpace == <<97, PERCENT, 50, 48, 98>>                             \* a%20b
EncBad == <<PERCENT, 122, 122>>                                     \* %zz
EncEAcute == <<PERCENT, 67, 51, PERCENT, 65, 57>>                   \* %C3%A9
TextSpace == <<97, SPACE, 98>>                                      \* a b

\* name="X" bodies
QuotedBodies == {BodySemi, BodyLookAlike}

\* name parameters that parse
NameParams ==
    {Plain(NameKey, BodyX), Quoted(NameKey, BodyEscaped), Extended(NameKey, EncSpace),
     <<78, 97, 77, 101, SPACE, EQUALS, SPACE, 121>>}                \* NaMe = y
    \cup {Quoted(NameKey, b) : b \in QuotedBodies}

\* name parameters that are unusable
BadNameParams ==
    {Extended(NameKey, EncBad),
     Plain(NameKey, <<255>>),                                       \* name=\xff
     NameKey \o <<EQUALS, DQUOTE, 97, 98, 99>>,                     \* name="abc
     NameKey \o <<STAR, EQUALS, 117, SQUOTE, 120>>}                 \* name*=u'x

\* parameters that start with the name and are not the name parameter
JunkParams ==
    {NameKey \o <<115, EQUALS, 120>>,                               \* names=x
     NameKey,                                                       \* name
     NameKey \o <<STAR, 120>>}                                      \* name*x

FileParams ==
    {Plain(FileNameKey, BodyFile), Quoted(FileNameKey, BodyFileSemi),
     Quoted(FileNameKey, BodyFileLookAlike),
     <<70, 105, 108, 101, 78, 97, 109, 101, STAR, EQUALS, 85, 84, 70, 45, 56,
       SQUOTE, SQUOTE>> \o EncEAcute}                               \* FileName*=UTF-8''%C3%A9

Params == NameParams \cup BadNameParams \cup JunkParams \cup FileParams

RECURSIVE HeadersUpTo(_)
HeadersUpTo(n) ==
    IF n = 0 THEN {DispositionType}
    ELSE LET prev == HeadersUpTo(n - 1)
         IN  prev \cup {h \o Sep \o p : h \in prev, p \in Params}

Headers == HeadersUpTo(MaxParams)

---------------------------------------------------------------------------
\* ContentDisposition::parse calls extract_from once per attribute on the header.
InitWith(hs) ==
    /\ header \in hs
    /\ attr \in {"Name", "FileName"}
    /\ pc = "extract"
    /\ current_header = header
    /\ regular_result = None
    /\ scan = <<>>
    /\ iters = 0
    /\ found = None
    /\ result = None
    /\ panicked = FALSE

Init == InitWith(Headers)

\* extract_from line 246 calls find_next_field, whose line 120 trims the header
Call ==
    /\ pc = "extract"
    /\ scan' = trim_ascii_ws_start(current_header)
    /\ iters' = 0
    /\ pc' = "find"
    /\ UNCHANGED <<header, attr, current_header, regular_result, found, result, panicked>>

\* find_next_field lines 122-143: the loop test and one iteration
ScanIter ==
    /\ pc = "find"
    /\ IF scan = <<>>
       THEN /\ found' = None
            /\ pc' = "returned"
            /\ UNCHANGED <<scan, iters, panicked>>
       ELSE \E r \in {scan_iter(scan, prefix_of(attr))} :
                /\ iters' = iters + 1
                /\ panicked' = (r.kind = "panic")
                /\ pc' = CASE r.kind = "panic" -> "panicked"
                           [] r.kind = "return" -> "returned"
                           [] OTHER -> "find"
                /\ found' = IF r.kind = "return" THEN r.found ELSE found
                /\ scan' = IF r.kind = "continue" THEN r.hdr ELSE scan
    /\ UNCHANGED <<header, attr, current_header, regular_result, result>>

\* extract_from lines 246-253: the body of the while-let loop
LoopBody ==
    /\ pc = "returned"
    /\ found.tag = "Some"
    /\ \E r \in {on_field(found.val.field, regular_result)} :
           /\ panicked' = (r.ret /\ r.res.tag = "Panic")
           /\ pc' = IF r.ret THEN (IF r.res.tag = "Panic" THEN "panicked" ELSE "done")
                    ELSE "extract"
           /\ result' = IF r.ret THEN r.res ELSE result
           /\ regular_result' = r.reg
           /\ current_header' = IF r.ret THEN current_header ELSE found.val.rest
    /\ UNCHANGED <<header, attr, scan, iters, found>>

\* extract_from lines 255-261: the loop has ended
Finish ==
    /\ pc = "returned"
    /\ found.tag = "None"
    /\ result' = finish(regular_result)
    /\ pc' = "done"
    /\ UNCHANGED <<header, attr, current_header, regular_result, scan, iters, found,
                   panicked>>

Next == Call \/ ScanIter \/ LoopBody \/ Finish

Spec == Init /\ [][Next]_vars

---------------------------------------------------------------------------
\* Inputs of arbitrary shape: a stem that ends inside a parameter, then any bytes of
\* the alphabet.
MaxTail == 3

Stems ==
    {<<>>,
     <<SEMI>> \o NameKey,
     <<SEMI>> \o NameKey \o <<EQUALS>>,
     <<SEMI>> \o NameKey \o <<EQUALS, DQUOTE>>,
     <<SEMI>> \o NameKey \o <<STAR, EQUALS>>,
     <<SEMI>> \o NameKey \o <<STAR, EQUALS, SQUOTE, SQUOTE>>}

TailBytes == {SEMI, EQUALS, STAR, DQUOTE, BACKSLASH, SQUOTE, PERCENT, SPACE, 52, 255}

RECURSIVE SeqsUpTo(_, _)
SeqsUpTo(S, n) ==
    IF n = 0 THEN {<<>>}
    ELSE LET prev == SeqsUpTo(S, n - 1)
         IN  prev \cup {Append(t, b) : t \in prev, b \in S}

FuzzHeaders == {s \o t : s \in Stems, t \in SeqsUpTo(TailBytes, MaxTail)}

InitFuzz == InitWith(FuzzHeaders)

SpecFuzz == InitFuzz /\ [][Next]_vars

---------------------------------------------------------------------------
\* percent_decode and parse_value on their own: header is the input, result the
\* returned value.
MaxPdLen == 5
MaxPvLen == 5

PdBytes == {PERCENT, 52, 102, 122, PLUS, 195}                       \* % 4 f z + 0xC3
PvBytes == {DQUOTE, BACKSLASH, 97, SEMI, SPACE}                     \* " \ a ; space

InitCall(inputs, fn) ==
    /\ header \in inputs
    /\ attr = "Name"
    /\ pc = fn
    /\ current_header = <<>>
    /\ regular_result = None
    /\ scan = <<>>
    /\ iters = 0
    /\ found = None
    /\ result = None
    /\ panicked = FALSE

Return(value) ==
    /\ result' = value
    /\ panicked' = (value.tag = "Panic")
    /\ pc' = IF value.tag = "Panic" THEN "panicked" ELSE "done"
    /\ UNCHANGED <<header, attr, current_header, regular_result, scan, iters, found>>

PercentDecodeCall == pc = "percent_decode" /\ Return(percent_decode(header))

ParseValueCall == pc = "parse_value" /\ Return(parse_value(header))

SpecPercentDecode ==
    InitCall(SeqsUpTo(PdBytes, MaxPdLen), "percent_decode") /\ [][PercentDecodeCall]_vars

SpecParseValue ==
    InitCall(SeqsUpTo(PvBytes, MaxPvLen), "parse_value") /\ [][ParseValueCall]_vars

---------------------------------------------------------------------------
\* The occurrences a header holds, by position: a parameter starts after a ';' and
\* optional whitespace, and is an occurrence of the attribute when it starts with the
\* attribute's name (in any ASCII case) and parses as a field.
SemiPositions(h) == {i \in 1..Len(h) : h[i] = SEMI}

ParamAt(h, i) == trim_ascii_ws_start(SubSeq(h, i + 1, Len(h)))

FieldAt(h, prefix, i) ==
    IF matches_prefix(ParamAt(h, i), prefix)
    THEN parse_field(ParamAt(h, i), prefix)
    ELSE None

AllOccurrences(h, prefix) ==
    {i \in SemiPositions(h) : FieldAt(h, prefix, i).tag = "Some"}

Occurrences(h, prefix, extended) ==
    {i \in AllOccurrences(h, prefix) :
        FieldAt(h, prefix, i).val.field.is_extended = extended}

\* The text an occurrence decodes to, or None when it is unusable
TextOf(field) ==
    IF field.is_extended THEN decode_field(field.value)
    ELSE IF field.is_escaped THEN convert_escaped(field.value)
    ELSE from_utf8(field.value)

Done == pc = "done"

Header1(p) == DispositionType \o Sep \o p
Header2(p, q) == DispositionType \o Sep \o p \o Sep \o q

---------------------------------------------------------------------------
\* C1: when the header holds a regular-form and an extended-form occurrence of the
\* requested attribute, in either order, extract_from returns the decoded value of
\* the (first) extended-form occurrence and not the regular value; in particular
\* name=x, name="a;b" or name="a\"b" beside name*=utf-8''a%20b gives "a b".
C1_ExtendedWins ==
    Done =>
        LET p == prefix_of(attr)
            ext == Occurrences(header, p, TRUE)
            reg == Occurrences(header, p, FALSE)
        IN  /\ (ext # {} /\ reg # {}) =>
                  result = decode_field(FieldAt(header, p, Min(ext)).val.field.value)
            /\ \A r \in {Plain(NameKey, BodyX), Quoted(NameKey, BodySemi),
                         Quoted(NameKey, BodyEscaped)} :
                  (/\ attr = "Name"
                   /\ header \in {Header2(r, Extended(NameKey, EncSpace)),
                                  Header2(Extended(NameKey, EncSpace), r)})
                  => result = Some(TextSpace)

\* C1 witness: name=x; name*=utf-8''a%20b was extracted as "a b"
C1_Witness ==
    /\ Done
    /\ attr = "Name"
    /\ header = Header2(Plain(NameKey, BodyX), Extended(NameKey, EncSpace))
    /\ result = Some(TextSpace)

\* C2: if the header holds a usable occurrence of the requested attribute (one that
\* decodes to text), the result is present, whatever unusable occurrences it also
\* holds.
C2_UsableOccurrenceFound ==
    Done =>
        LET p == prefix_of(attr)
        IN  (\E i \in AllOccurrences(header, p) :
                TextOf(FieldAt(header, p, i).val.field).tag = "Some")
            => result.tag = "Some"

\* C3: a header whose parameters are name="X" and possibly a filename parameter
\* gives exactly X as the name, for every quoted body X.
C3_QuotedBodyInFull ==
    Done =>
        \A body \in QuotedBodies :
            (/\ attr = "Name"
             /\ header \in {Header1(Quoted(NameKey, body))}
                    \cup {Header2(Quoted(NameKey, body), f) : f \in FileParams})
            => result = Some(body)

\* C4: a header whose only parameter is a filename parameter gives an absent name and
\* a present file name.
C4_FileNameOnly ==
    Done =>
        \A f \in FileParams :
            header = Header1(f) =>
                /\ attr = "Name" => result = None
                /\ attr = "FileName" => result.tag = "Some"

\* C5: with no extended-form occurrence and two or more regular-form occurrences of
\* the requested attribute, extract_from returns the value of the leftmost
\* regular-form occurrence; for name=x and NaMe = y it is the one written first.
C5_LeftmostRegularWins ==
    Done =>
        LET p == prefix_of(attr)
            ext == Occurrences(header, p, TRUE)
            reg == Occurrences(header, p, FALSE)
            x == Plain(NameKey, BodyX)
            y == <<78, 97, 77, 101, SPACE, EQUALS, SPACE, 121>>
        IN  /\ (ext = {} /\ Cardinality(reg) >= 2) =>
                  result = TextOf(FieldAt(header, p, Min(reg)).val.field)
            /\ (attr = "Name" /\ header = Header2(x, y)) => result = Some(<<120>>)
            /\ (attr = "Name" /\ header = Header2(y, x)) => result = Some(<<121>>)

\* C5 witness: name=x; NaMe = y was extracted as x
C5_Witness ==
    /\ Done
    /\ attr = "Name"
    /\ header = Header2(Plain(NameKey, BodyX),
                        <<78, 97, 77, 101, SPACE, EQUALS, SPACE, 121>>)
    /\ result = Some(<<120>>)

\* C6: find_next_field returns a field only for a parameter that starts (after ';'
\* and optional whitespace) with the attribute's name in any ASCII case followed,
\* after optional whitespace, by '*' or '='; it returns the leftmost such parameter
\* that parses and returns nothing only when the header holds none: names=x, name
\* and name*x are passed over and the occurrence after them is still found.
C6_PrefixNeedsDelimiter ==
    pc = "returned" =>
        LET p == prefix_of(attr)
            h == current_header
            occ == AllOccurrences(h, p)
        IN  /\ found.tag = "None" => occ = {}
            /\ found.tag = "Some" =>
                  LET rest == found.val.rest
                      start == Len(h) - Len(rest) - Len(p)
                      after == trim_ascii_ws_start(rest)
                  IN  /\ occ # {}
                      /\ found = FieldAt(h, p, Min(occ))
                      /\ start >= 1
                      /\ SubSeq(h, start + Len(p) + 1, Len(h)) = rest
                      /\ \A k \in 1..Len(p) : to_ascii_lowercase(h[start + k]) = p[k]
                      /\ \E s \in 1..start :
                            /\ h[s] = SEMI
                            /\ \A j \in (s + 1)..start : is_ascii_whitespace(h[j])
                      /\ Len(after) > 0
                      /\ after[1] \in {STAR, EQUALS}
            /\ \A j \in JunkParams :
                  (attr = "Name" /\ current_header = header) =>
                      /\ header = Header2(j, Plain(NameKey, BodyX)) =>
                            found.tag = "Some" /\ found.val.field.value = <<120>>
                      /\ header = Header2(j, <<78, 97, 77, 101, SPACE, EQUALS, SPACE, 121>>) =>
                            found.tag = "Some" /\ found.val.field.value = <<121>>

\* C6 witness: in names=x; NaMe = y the scan passed names=x and returned y
C6_Witness ==
    /\ pc = "returned"
    /\ attr = "Name"
    /\ header = Header2(NameKey \o <<115, EQUALS, 120>>,
                        <<78, 97, 77, 101, SPACE, EQUALS, SPACE, 121>>)
    /\ current_header = header
    /\ found.tag = "Some"
    /\ found.val.field.value = <<121>>

---------------------------------------------------------------------------
\* The remainder find_next_field returned is a proper suffix of the header it was given
RestIsProperSuffix ==
    (pc = "returned" /\ found.tag = "Some") =>
        LET rest == found.val.rest
            n == Len(rest)
            len == Len(current_header)
        IN  n < len /\ SubSeq(current_header, len - n + 1, len) = rest

\* Each iteration of the scan loop has used up at least one byte of the header
IterationsBounded ==
    /\ pc \in {"find", "returned"} => iters <= Len(current_header)
    /\ pc = "find" => iters + Len(scan) <= Len(current_header)

\* Until extract_from has returned, a step of it can be taken
NotStuck ==
    \/ pc \in {"extract", "find", "done"}
    \/ pc = "returned" /\ found.tag \in {"Some", "None"}

\* A bound on the steps extract_from still takes: calls of find_next_field are on
\* ever shorter headers, and within a call the slice to scan gets shorter
Rank ==
    LET b == Len(header) + 4
    IN  CASE pc = "extract" -> b * Len(current_header) + Len(header) + 3
          [] pc = "find" -> b * Len(current_header) + Len(scan) + 2
          [] pc = "returned" -> b * Len(current_header) + 1
          [] OTHER -> 0

RankDecreases == Rank' < Rank

\* An iteration that goes round the loop again leaves a shorter slice to scan
ScanShrinks == (pc = "find" /\ pc' = "find") => Len(scan') < Len(scan)

\* The next call of find_next_field is on a shorter header
HeaderShrinks ==
    (pc = "returned" /\ pc' = "extract") => Len(current_header') < Len(current_header)

\* C9: every remainder find_next_field returns is a proper suffix of the header it
\* was given, every iteration of its scan loop strictly shortens the slice still to
\* be scanned, the iterations of one call number at most the header's length, and
\* every step of extract_from lowers a bound on the steps still to come.
C9_Terminates ==
    /\ [](RestIsProperSuffix /\ IterationsBounded /\ NotStuck)
    /\ [][ScanShrinks /\ HeaderShrinks /\ RankDecreases]_vars

\* C9 witness: a call of find_next_field that went round its loop three times
C9_Witness == pc = "find" /\ iters >= 3 /\ scan # <<>>

\* C10: no index or slice bound of find_next_field, parse_field, parse_value,
\* parse_extended_value and percent_decode falls outside its slice, on any input.
C10_NoPanic ==
    /\ ~panicked
    /\ pc # "panicked"
    /\ result.tag # "Panic"
    /\ found.tag # "Panic"

\* C10 witness: an extended value that ends in '%' was decoded
C10_Witness ==
    /\ Done
    /\ attr = "Name"
    /\ header = <<SEMI>> \o NameKey \o <<STAR, EQUALS, SQUOTE, SQUOTE, 52, PERCENT>>
    /\ result = Some(<<52, PERCENT>>)

---------------------------------------------------------------------------
\* What from_str_radix accepts after a '%': two hex digits, or '+' and a hex digit
IsHexDigit(b) == b \in (48..57) \cup (65..70) \cup (97..102)

HexValue(b) == IF b <= 57 THEN b - 48 ELSE IF b <= 70 THEN b - 55 ELSE b - 87

AcceptedPair(a, b) == IsHexDigit(b) /\ (IsHexDigit(a) \/ a = PLUS)

PairValue(a, b) == IF a = PLUS THEN HexValue(b) ELSE 16 * HexValue(a) + HexValue(b)

\* Decoding as the amended claim states it, from the first '%' on
RECURSIVE DecodedOrFails(_)
DecodedOrFails(s) ==
    LET pos == {i \in 1..Len(s) : s[i] = PERCENT}
        p == Min(pos)
    IN  IF pos = {} \/ p + 2 > Len(s) THEN Some(s)
        ELSE IF ~AcceptedPair(s[p + 1], s[p + 2]) THEN None
        ELSE LET r == DecodedOrFails(SubSeq(s, p + 3, Len(s)))
             IN  IF r.tag = "None" THEN None
                 ELSE Some(SubSeq(s, 1, p - 1) \o <<PairValue(s[p + 1], s[p + 2])>> \o r.val)

\* Decoding as the claim states it: a '%' not followed by two hex digits is copied
RECURSIVE DecodedLeniently(_)
DecodedLeniently(s) ==
    LET pos == {i \in 1..Len(s) : s[i] = PERCENT}
        p == Min(pos)
    IN  IF pos = {} THEN s
        ELSE IF p + 2 <= Len(s) /\ IsHexDigit(s[p + 1]) /\ IsHexDigit(s[p + 2])
             THEN SubSeq(s, 1, p - 1) \o <<16 * HexValue(s[p + 1]) + HexValue(s[p + 2])>>
                  \o DecodedLeniently(SubSeq(s, p + 3, Len(s)))
             ELSE SubSeq(s, 1, p) \o DecodedLeniently(SubSeq(s, p + 1, Len(s)))

\* C7 (as claimed): percent_decode returns a value for every input, with each '%' and
\* two hex digits replaced by the byte and every other '%' copied through.
C7_NeverFails == Done => result = Some(DecodedLeniently(header))

\* C7 (amended): percent_decode replaces a '%' and the two bytes after it by the byte
\* they name when from_str_radix accepts them, copies through a '%' that has fewer
\* than two bytes after it, and returns None when a '%' it reaches has two bytes
\* after it that from_str_radix does not accept.
C7_FailsOnBadTriple == Done => result = DecodedOrFails(header)

\* C7 witness: %4f% was decoded to O%
C7_Witness ==
    /\ Done
    /\ header = <<PERCENT, 52, 102, PERCENT>>
    /\ result = Some(<<79, PERCENT>>)

---------------------------------------------------------------------------
\* The backslashes that stand immediately before position k of rest
RECURSIVE BackslashRun(_, _)
BackslashRun(rest, k) ==
    IF k > 1 /\ rest[k - 1] = BACKSLASH THEN 1 + BackslashRun(rest, k - 1) ELSE 0

UnescapedQuotes(rest) ==
    {k \in 1..Len(rest) : rest[k] = DQUOTE /\ BackslashRun(rest, k) % 2 = 0}

\* C8: on a quoted input the value ends at the first '"' that is not preceded by an
\* odd run of backslashes, was_escaped tells whether an escaped quote was skipped,
\* and the result is None only when there is no such '"'.
C8_ClosingQuote ==
    LET opened == trim_ascii_ws_then(header, DQUOTE)
        rest == opened.val
        u == UnescapedQuotes(rest)
    IN  (Done /\ opened.tag = "Some") =>
            IF u = {} THEN result = None
            ELSE result = Some([value |-> SubSeq(rest, 1, Min(u) - 1),
                                escaped |-> \E j \in 1..(Min(u) - 1) : rest[j] = DQUOTE])

====
